---- MODULE Spec2Model ----
(***************************************************************************)
(* maintainer/update_json_stubs_sitemap.py as a state machine.             *)
(*                                                                         *)
(* The script is one linear run: load versions.json (get_web_file),        *)
(* update the list and write it back, look up latest_version and           *)
(* dev_version, write the redirect stubs, write sitemap_index.xml.         *)
(* A python str is a sequence of one-character strings, so that            *)
(* substring tests, os.path.join and str.strip are computed on characters. *)
(* A value that may be None is a sequence of length 0 (None) or 1.         *)
(***************************************************************************)
EXTENDS Integers, Sequences, FiniteSets, TLC

VARIABLES
    URL,              \* os.environ['URL']
    VERSION,          \* os.environ['VERSION']
    remote,           \* the document served at URL/versions.json: None or <<json text>>
    local_json,       \* ./versions.json in the working directory: None or <<json text>>
    pc,               \* position of the run in the script
    exception,        \* name of the uncaught exception that ended the run, "" if none
    io,               \* what the environment did to get_web_file: [request, open], each
                      \* "ok" or "raised", and "" when not attempted
    loaded,           \* the list get_web_file returned (line 70), kept for comparison
    versions,         \* the in-memory list `versions`
    latest_version,   \* None or <<str>>
    dev_version,      \* None or <<str>>
    html_files,       \* files of the glob not yet visited by the loop of line 112
    redirects,        \* the write_redirect calls of this run: [file, outfile, url]
    stubs,            \* redirect stubs on disk: outfile -> document
    dirs,             \* directories made by os.makedirs
    sitemap_index,    \* <loc> texts of sitemap_index.xml, in order; None before it is written
    chained           \* every run so far loaded the manifest the run before it wrote

vars == <<URL, VERSION, remote, local_json, pc, exception, io, loaded, versions,
          latest_version, dev_version, html_files, redirects, stubs, dirs,
          sitemap_index, chained>>

(***************************************************************************)
(* Bounds                                                                  *)
(***************************************************************************)
\* longest manifest a first run is given
MaxLoaded == 2
\* a further deployment of a new version starts while the manifest is shorter than this
MaxDeployed == 3

(***************************************************************************)
(* Strings                                                                 *)
(***************************************************************************)
None == << >>
Some(x) == << x >>

s_dev == << "d", "e", "v" >>
s_html == << ".", "h", "t", "m", "l" >>
s_index_html == << "i", "n", "d", "e", "x" >> \o s_html
s_sitemap_xml == << "s", "i", "t", "e", "m", "a", "p", ".", "x", "m", "l" >>
s_latest == << "l", "a", "t", "e", "s", "t" >>

\* values of the environment the runs are checked for
URLS == { << "u" >>, << "u", "/" >> }
VERSIONS == { << "1" >>, << "2" >>, s_dev, << "1", "d", "e", "v" >>, << "d", "2" >> }
\* files the documentation build puts under each version directory
BuiltFiles == { s_index_html, << "1" >> \o s_html, << "a", "/", "b" >> \o s_html,
                << "x", ".", "j", "s" >> }

\* python: sub in s
Contains(s, sub) ==
    \E i \in 1..(Len(s) - Len(sub) + 1) : SubSeq(s, i, i + Len(sub) - 1) = sub

StartsWith(s, p) == Len(s) >= Len(p) /\ SubSeq(s, 1, Len(p)) = p
EndsWith(s, p) == Len(s) >= Len(p) /\ SubSeq(s, Len(s) - Len(p) + 1, Len(s)) = p

\* posixpath.join(a, b)
PathJoin(a, b) ==
    IF StartsWith(b, << "/" >>) THEN b
    ELSE IF a = << >> \/ EndsWith(a, << "/" >>) THEN a \o b
    ELSE a \o << "/" >> \o b

\* posixpath.join(a, b, c)
PathJoin3(a, b, c) == PathJoin(PathJoin(a, b), c)

CharSet(s) == { s[i] : i \in 1..Len(s) }

RECURSIVE LStrip(_, _)
LStrip(s, chars) ==
    IF s # << >> /\ Head(s) \in chars THEN LStrip(Tail(s), chars) ELSE s

RECURSIVE RStrip(_, _)
RStrip(s, chars) ==
    IF s # << >> /\ s[Len(s)] \in chars THEN RStrip(SubSeq(s, 1, Len(s) - 1), chars) ELSE s

\* python: s.strip(chars), which removes from both ends every character that is in chars
Strip(s, chars) == RStrip(LStrip(s, CharSet(chars)), CharSet(chars))

\* index of the last "/" of p, 0 if none
LastSlash(p) ==
    LET at == { i \in 1..Len(p) : p[i] = "/" }
    IN  IF at = {} THEN 0 ELSE CHOOSE i \in at : \A j \in at : j <= i

\* os.path.dirname(p)
Dirname(p) ==
    LET i == LastSlash(p)
        head == SubSeq(p, 1, i)
    IN  IF CharSet(head) \subseteq { "/" } THEN head ELSE RStrip(head, { "/" })

(***************************************************************************)
(* json                                                                    *)
(***************************************************************************)
\* json.dump of one dict of the list: a bool is written as the literal true or false
JsonDumpEntry(e) ==
    [version |-> e.version, display |-> e.display, url |-> e.url,
     latest |-> IF e.latest THEN "true" ELSE "false"]

\* json.dump(versions, f, indent=2): the text of the file, one object per entry
JsonDump(vs) == [i \in 1..Len(vs) |-> JsonDumpEntry(vs[i])]

JsonParseEntry(o) ==
    [version |-> o.version, display |-> o.display, url |-> o.url,
     latest |-> (o.latest = "true")]

\* json.loads(arg): arg must be a str; any other object raises TypeError
JsonLoads(arg) ==
    IF arg.type = "str"
    THEN [exc |-> "", value |-> [i \in 1..Len(arg.text) |-> JsonParseEntry(arg.text[i])]]
    ELSE [exc |-> "TypeError", value |-> << >>]

\* callback(arg) for the callbacks the script passes to get_web_file
Call(callback, arg) ==
    CASE callback = "json.loads" -> JsonLoads(arg)

(***************************************************************************)
(* get_web_file                                                            *)
(***************************************************************************)
\* get_web_file without the inner except: the IOError of open leaves the function
GetWebFile_Raise(fetch, file, callback, default) ==
    IF fetch # None
    THEN Call(callback, [type |-> "str", text |-> fetch[1]])
    ELSE IF file # None
    THEN Call(callback, [type |-> "file", text |-> file[1]])
    ELSE [exc |-> "IOError", value |-> << >>]

\* get_web_file(filename, callback, default), where fetch is what urlopen(...).read()
\* gave (None when the request raised) and file is the local file of that name
\* (None when open raised IOError). The fallback hands the open file object f,
\* not its text, to callback.
GetWebFile(fetch, file, callback, default) ==
    IF fetch # None
    THEN Call(callback, [type |-> "str", text |-> fetch[1]])
    ELSE IF file # None
    THEN Call(callback, [type |-> "file", text |-> file[1]])
    ELSE [exc |-> "", value |-> default]

(***************************************************************************)
(* The manifest update, lines 71-85                                        *)
(***************************************************************************)
\* the membership test lost: every VERSION is taken for new
AlreadyExists_Never(vs, v) == FALSE

\* existing = [item['version'] for item in versions]; VERSION in existing
AlreadyExists(vs, v) == \E i \in 1..Len(vs) : vs[i].version = v

\* 'dev' looked for at the start of VERSION only
IsLatest_Prefix(v) == ~StartsWith(v, s_dev)

\* latest = 'dev' not in VERSION
IsLatest(v) == ~Contains(v, s_dev)

\* the loop of lines 77-78 left out
ClearLatest_Skip(vs) == vs

\* for ver in versions: ver['latest'] = False
ClearLatest(vs) == [i \in 1..Len(vs) |-> [vs[i] EXCEPT !.latest = FALSE]]

\* 'url': VERSION, without the join
NewEntry_BareUrl(url, v) ==
    [version |-> v, display |-> v, url |-> v, latest |-> IsLatest(v)]

\* the dict appended at lines 80-85
NewEntry(url, v) ==
    [version |-> v, display |-> v, url |-> PathJoin(url, v), latest |-> IsLatest(v)]

\* the flags cleared after the append instead of before it
UpdateVersions_ClearAfterAppend(vs, url, v) ==
    IF AlreadyExists(vs, v) THEN vs
    ELSE IF IsLatest(v) THEN ClearLatest(Append(vs, NewEntry(url, v)))
    ELSE Append(vs, NewEntry(url, v))

\* lines 74-85
UpdateVersions(vs, url, v) ==
    IF AlreadyExists(vs, v) THEN vs
    ELSE Append(IF IsLatest(v) THEN ClearLatest(vs) ELSE vs, NewEntry(url, v))

(***************************************************************************)
(* The lookups, lines 90-108                                               *)
(***************************************************************************)
\* the scan run over versions instead of versions[::-1]
ScanLatest_Forward(vs) ==
    LET at == { i \in 1..Len(vs) : vs[i].latest }
    IN  IF at = {} THEN None
        ELSE Some(vs[CHOOSE i \in at : \A j \in at : i <= j].version)

\* for ver in versions[::-1]: if ver['latest']: ... break
RECURSIVE ScanLatest(_)
ScanLatest(vs) ==
    IF vs = << >> THEN None
    ELSE IF vs[Len(vs)].latest THEN Some(vs[Len(vs)].version)
    ELSE ScanLatest(SubSeq(vs, 1, Len(vs) - 1))

\* for ver in versions[::-1]: if 'dev' in ver['version']: ... break
RECURSIVE ScanDev(_)
ScanDev(vs) ==
    IF vs = << >> THEN None
    ELSE IF Contains(vs[Len(vs)].version, s_dev) THEN Some(vs[Len(vs)].version)
    ELSE ScanDev(SubSeq(vs, 1, Len(vs) - 1))

\* the else branch of both loops: versions[-1]['version'], None on IndexError
LastVersion(vs) == IF vs = << >> THEN None ELSE Some(vs[Len(vs)].version)

LatestVersion(vs) == IF ScanLatest(vs) # None THEN ScanLatest(vs) ELSE LastVersion(vs)

DevVersion(vs) == IF ScanDev(vs) # None THEN ScanDev(vs) ELSE LastVersion(vs)

\* python truth value of a str or None
Truthy(x) == x # None /\ x[1] # << >>

(***************************************************************************)
(* The redirect stubs, lines 53-65 and 110-126                             *)
(***************************************************************************)
\* url = os.path.join(URL, version, file)
RedirectUrl(url, version, file) == PathJoin3(url, version, file)

\* the document write_redirect writes: the three places of the template that hold url
RedirectDoc(u) == [title |-> u, refresh |-> u, canonical |-> u]

\* a name the pattern * does not match: a component after the first that starts with "."
Hidden(p) == \E i \in 1..(Len(p) - 1) : p[i] = "/" /\ p[i + 1] = "."

\* glob.glob(f'{latest_version}/**/*.html', recursive=True) over the files of tree
Glob(lv, tree) ==
    { f \in tree : StartsWith(f, lv \o << "/" >>) /\ EndsWith(f, s_html) /\ ~Hidden(f) }

\* outfile = file.strip(f'{latest_version}/')
Outfile(file, lv) == Strip(file, lv \o << "/" >>)

\* write_redirect(outfile, '', outfile)
PerFileUrl_Outfile(url, file, outfile) == RedirectUrl(url, << >>, outfile)

\* the url of the stub the loop writes for file: write_redirect(file, '', outfile)
PerFileUrl(url, file, outfile) == RedirectUrl(url, << >>, file)

\* open(outfile, 'w'); f.write(REDIRECT)
WriteFile(fs, outfile, doc) ==
    [p \in DOMAIN fs \cup { outfile } |-> IF p = outfile THEN doc ELSE fs[p]]

(***************************************************************************)
(* sitemap_index.xml, lines 149-159                                        *)
(***************************************************************************)
SitemapLocs(url, vs) ==
    [i \in 1..Len(vs) |-> PathJoin(url, vs[i].version \o << "/" >> \o s_sitemap_xml)]

(***************************************************************************)
(* The state before a run                                                  *)
(***************************************************************************)
\* an entry a published manifest can hold
Entries(url) ==
    { [version |-> v, display |-> v, url |-> PathJoin(url, v), latest |-> b] :
        v \in VERSIONS, b \in BOOLEAN }

RECURSIVE SeqsUpTo(_, _)
SeqsUpTo(S, n) ==
    IF n = 0 THEN { << >> }
    ELSE LET shorter == SeqsUpTo(S, n - 1)
         IN  shorter \cup { Append(q, x) : q \in { r \in shorter : Len(r) = n - 1 }, x \in S }

\* the variables a run sets, as they are when the interpreter starts
RunStart ==
    /\ pc = "load"
    /\ exception = ""
    /\ io = [request |-> "", open |-> ""]
    /\ loaded = << >>
    /\ versions = << >>
    /\ latest_version = None
    /\ dev_version = None
    /\ html_files = {}
    /\ redirects = {}
    /\ sitemap_index = None

\* a run that finds manifest m published at URL/versions.json; the working
\* directory holds a copy of it or no versions.json
InitWith(m) ==
    /\ VERSION \in VERSIONS
    /\ remote = Some(JsonDump(m))
    /\ local_json \in { None, remote }
    /\ RunStart
    /\ stubs = << >>
    /\ dirs = {}
    /\ chained = TRUE

\* any published manifest
Init ==
    /\ URL \in URLS
    /\ \E m \in SeqsUpTo(Entries(URL), MaxLoaded) : InitWith(m)

\* the first deployment of a site: the published manifest is empty
InitEmpty ==
    /\ URL \in URLS
    /\ InitWith(<< >>)

(***************************************************************************)
(* Line 70: versions = get_web_file('versions.json', json.loads, [])       *)
(***************************************************************************)
Load(fetch, file) ==
    LET r == GetWebFile(fetch, file, "json.loads", << >>)
    IN  /\ pc = "load"
        /\ io' = [request |-> IF fetch # None THEN "ok" ELSE "raised",
                   open |-> IF fetch # None THEN "" ELSE IF file # None THEN "ok" ELSE "raised"]
        /\ exception' = r.exc
        /\ pc' = IF r.exc = "" THEN "update" ELSE "crashed"
        /\ loaded' = r.value
        /\ versions' = r.value
        /\ chained' = (chained /\ r.exc = "" /\ remote = Some(JsonDump(r.value)))
        /\ UNCHANGED <<URL, VERSION, remote, local_json, latest_version, dev_version,
                       html_files, redirects, stubs, dirs, sitemap_index>>

\* the request succeeds
LoadHttp ==
    /\ remote # None
    /\ Load(remote, local_json)

\* the request raises and ./versions.json opens
LoadLocal ==
    /\ local_json # None
    /\ Load(None, local_json)

\* the request raises and open raises IOError
LoadDefault ==
    /\ local_json = None
    /\ Load(None, local_json)

(***************************************************************************)
(* Lines 71-88: update the list and write versions.json                    *)
(***************************************************************************)
Update ==
    /\ pc = "update"
    /\ versions' = UpdateVersions(versions, URL, VERSION)
    /\ local_json' = Some(JsonDump(versions'))
    /\ pc' = "lookup"
    /\ UNCHANGED <<URL, VERSION, remote, exception, io, loaded, latest_version,
                   dev_version, html_files, redirects, stubs, dirs, sitemap_index,
                   chained>>

(***************************************************************************)
(* Lines 90-108                                                            *)
(***************************************************************************)
Lookup ==
    /\ pc = "lookup"
    /\ latest_version' = LatestVersion(versions)
    /\ dev_version' = DevVersion(versions)
    /\ pc' = "glob"
    /\ UNCHANGED <<URL, VERSION, remote, local_json, exception, io, loaded, versions,
                   html_files, redirects, stubs, dirs, sitemap_index, chained>>

(***************************************************************************)
(* Lines 110-126                                                           *)
(***************************************************************************)
\* the files of the working directory: the built pages of every version of
\* the manifest, and the stubs written so far
Tree ==
    { v \o << "/" >> \o f : v \in { versions[i].version : i \in 1..Len(versions) },
                            f \in BuiltFiles }
    \cup DOMAIN stubs

\* lines 110-111
GlobHtml ==
    /\ pc = "glob"
    /\ IF Truthy(latest_version)
       THEN /\ html_files' = Glob(latest_version[1], Tree)
            /\ pc' = "loop"
       ELSE /\ html_files' = {}
            /\ pc' = "dev"
    /\ UNCHANGED <<URL, VERSION, remote, local_json, exception, io, loaded, versions,
                   latest_version, dev_version, redirects, stubs, dirs, sitemap_index,
                   chained>>

\* lines 112-122, one iteration of the loop
PerFileRedirect ==
    /\ pc = "loop"
    /\ \E file \in html_files :
         LET outfile == Outfile(file, latest_version[1])
             dirname == Dirname(outfile)
             u == PerFileUrl(URL, file, outfile)
         IN  /\ html_files' = html_files \ { file }
             /\ dirs' = IF dirname # << >> THEN dirs \cup { dirname } ELSE dirs
             /\ IF outfile = << >>
                THEN \* open('', 'w') raises FileNotFoundError
                     /\ pc' = "crashed"
                     /\ exception' = "FileNotFoundError"
                     /\ UNCHANGED <<stubs, redirects>>
                ELSE /\ stubs' = WriteFile(stubs, outfile, RedirectDoc(u))
                     /\ redirects' = redirects \cup
                            { [file |-> file, outfile |-> outfile, url |-> u] }
                     /\ UNCHANGED <<pc, exception>>
    /\ UNCHANGED <<URL, VERSION, remote, local_json, io, loaded, versions,
                   latest_version, dev_version, sitemap_index, chained>>

\* line 123
LatestRedirect ==
    /\ pc = "loop"
    /\ html_files = {}
    /\ stubs' = WriteFile(stubs, s_latest \o << "/" >> \o s_index_html,
                          RedirectDoc(RedirectUrl(URL, latest_version[1], s_index_html)))
    /\ pc' = "dev"
    /\ UNCHANGED <<URL, VERSION, remote, local_json, exception, io, loaded, versions,
                   latest_version, dev_version, html_files, redirects, dirs,
                   sitemap_index, chained>>

\* lines 125-126
DevRedirect ==
    /\ pc = "dev"
    /\ stubs' = IF Truthy(dev_version)
                THEN WriteFile(stubs, s_dev \o << "/" >> \o s_index_html,
                               RedirectDoc(RedirectUrl(URL, dev_version[1], s_index_html)))
                ELSE stubs
    /\ pc' = "sitemap"
    /\ UNCHANGED <<URL, VERSION, remote, local_json, exception, io, loaded, versions,
                   latest_version, dev_version, html_files, redirects, dirs,
                   sitemap_index, chained>>

(***************************************************************************)
(* Lines 149-159                                                           *)
(***************************************************************************)
WriteSitemap ==
    /\ pc = "sitemap"
    /\ sitemap_index' = Some(SitemapLocs(URL, versions))
    /\ pc' = "done"
    /\ UNCHANGED <<URL, VERSION, remote, local_json, exception, io, loaded, versions,
                   latest_version, dev_version, html_files, redirects, stubs, dirs,
                   chained>>

(***************************************************************************)
(* The next deployment: the output of a finished run is published and the  *)
(* script is started again, with the same or another VERSION               *)
(***************************************************************************)
NextRun ==
    /\ pc \in { "done", "crashed" }
    /\ remote' = IF pc = "done" THEN local_json ELSE remote
    /\ local_json' \in { None, remote' }
    /\ \E v \in VERSIONS :
         /\ Len(remote'[1]) < MaxDeployed \/ \E i \in 1..Len(remote'[1]) : remote'[1][i].version = v
         /\ VERSION' = v
    /\ pc' = "load"
    /\ exception' = ""
    /\ io' = [request |-> "", open |-> ""]
    /\ loaded' = << >>
    /\ versions' = << >>
    /\ latest_version' = None
    /\ dev_version' = None
    /\ html_files' = {}
    /\ redirects' = {}
    /\ sitemap_index' = None
    /\ UNCHANGED <<URL, stubs, dirs, chained>>

Next ==
    \/ LoadHttp
    \/ LoadLocal
    \/ LoadDefault
    \/ Update
    \/ Lookup
    \/ GlobHtml
    \/ PerFileRedirect
    \/ LatestRedirect
    \/ DevRedirect
    \/ WriteSitemap

NextRuns ==
    \/ Next
    \/ NextRun

\* one run, from any published manifest
Spec == Init /\ [][Next]_vars

\* the deployments of a site, from its first
SpecRuns == InitEmpty /\ [][NextRuns]_vars

(***************************************************************************)
(* The lookups of lines 90-108 on any list                                 *)
(***************************************************************************)
MaxLookup == 3

InitLookup ==
    /\ URL \in URLS
    /\ VERSION \in VERSIONS
    /\ versions \in SeqsUpTo(Entries(URL), MaxLookup)
    /\ loaded = versions
    /\ remote = None
    /\ local_json = Some(JsonDump(versions))
    /\ pc = "lookup"
    /\ exception = ""
    /\ io = [request |-> "", open |-> ""]
    /\ latest_version = None
    /\ dev_version = None
    /\ html_files = {}
    /\ redirects = {}
    /\ sitemap_index = None
    /\ stubs = << >>
    /\ dirs = {}
    /\ chained = TRUE

SpecLookup == InitLookup /\ [][Lookup]_vars

(***************************************************************************)
(* Properties                                                              *)
(***************************************************************************)
\* the run is past line 88: the list is updated and versions.json written
Updated == pc \in { "lookup", "glob", "loop", "dev", "sitemap", "done" }

\* the run is past line 108
LookedUp == pc \in { "glob", "loop", "dev", "sitemap", "done" }

\* the manifest a reader of ./versions.json gets
Written == JsonLoads([type |-> "str", text |-> local_json[1]]).value

\* base/p, with no second "/" when base ends in one
UrlAt(base, p) ==
    IF base[Len(base)] = "/" THEN base \o p ELSE base \o << "/" >> \o p

IsDev(v) == \E i \in 1..Len(v) - 2 : v[i] = "d" /\ v[i + 1] = "e" /\ v[i + 2] = "v"

Present(m, v) == v \in { m[i].version : i \in 1..Len(m) }

LatestAt(m) == { i \in 1..Len(m) : m[i].latest }

Max(S) == CHOOSE i \in S : \A j \in S : j <= i

\* C1: after an update with a VERSION that is new and has no "dev" in it, the
\* written manifest has exactly one entry with latest = true, the entry of
\* VERSION, and every entry that was loaded has latest = false.
C1_NonDevIsOnlyLatest ==
    (Updated /\ ~Present(loaded, VERSION) /\ ~IsDev(VERSION)) =>
        /\ LatestAt(Written) = { Len(Written) }
        /\ Written[Len(Written)].version = VERSION
        /\ \A i \in 1..Len(loaded) : Written[i].latest = FALSE

C1_Witness ==
    /\ pc = "done"
    /\ ~Present(loaded, VERSION)
    /\ ~IsDev(VERSION)
    /\ Cardinality(LatestAt(loaded)) = 2
    /\ LatestAt(Written) = { 3 }

\* C2: after an update with a VERSION that is already in the loaded manifest,
\* the list and the written manifest are the loaded manifest: same length,
\* same entries in the same order, and as many entries of VERSION as before;
\* the file written is the file that was fetched, so that a second run with
\* the same VERSION writes what the first wrote.
C2_PresentIsUnchanged ==
    (Updated /\ Present(loaded, VERSION)) =>
        /\ versions = loaded
        /\ io.request = "ok" => local_json = remote
        /\ Len(Written) = Len(loaded)
        /\ \A i \in 1..Len(loaded) : Written[i] = loaded[i]
        /\ Cardinality({ i \in 1..Len(Written) : Written[i].version = VERSION }) =
           Cardinality({ i \in 1..Len(loaded) : loaded[i].version = VERSION })

C2_Witness ==
    /\ pc = "done"
    /\ Len(loaded) = 2
    /\ loaded[1].version = VERSION
    /\ loaded[2].version # VERSION
    /\ loaded[2].latest
    /\ ~IsDev(VERSION)
    /\ Written = loaded

\* C3: after an update with a VERSION that is new, the written manifest is one
\* longer than the loaded one, its last entry is {version: VERSION, display:
\* VERSION, url: URL/VERSION, latest: no "dev" in VERSION}, and no other
\* entry has that version.
C3_NewIsAppended ==
    (Updated /\ ~Present(loaded, VERSION)) =>
        /\ Len(Written) = Len(loaded) + 1
        /\ Written[Len(Written)] =
               [version |-> VERSION, display |-> VERSION, url |-> UrlAt(URL, VERSION),
                latest |-> ~IsDev(VERSION)]
        /\ { i \in 1..Len(Written) : Written[i].version = VERSION } = { Len(Written) }

C3_Witness ==
    /\ pc = "done"
    /\ ~Present(loaded, VERSION)
    /\ Len(loaded) = 2
    /\ Len(Written) = 3
    /\ Written[3].version = VERSION

\* C4: after an update with a VERSION that is new and has "dev" in it, every
\* loaded entry keeps its latest value and the appended entry has latest = false.
C4_DevKeepsFlags ==
    (Updated /\ ~Present(loaded, VERSION) /\ IsDev(VERSION)) =>
        /\ Len(Written) = Len(loaded) + 1
        /\ \A i \in 1..Len(loaded) : Written[i].latest = loaded[i].latest
        /\ Written[Len(Written)].latest = FALSE

C4_Witness ==
    /\ pc = "done"
    /\ ~Present(loaded, VERSION)
    /\ IsDev(VERSION)
    /\ ~StartsWith(VERSION, s_dev)
    /\ Len(loaded) = 2
    /\ loaded[1].latest
    /\ ~loaded[2].latest
    /\ Written[1].latest

\* C5: when the request raised and ./versions.json opened, get_web_file
\* returns the decoded text of that file and nothing is raised.
C5_LocalFallbackDecodes ==
    (io = [request |-> "raised", open |-> "ok"] /\ pc \in { "update", "crashed" }) =>
        /\ exception = ""
        /\ pc = "update"
        /\ loaded = JsonLoads([type |-> "str", text |-> local_json[1]]).value

\* C6: when the request raised and open raised IOError, get_web_file returns
\* the default [], nothing is raised, and the run goes on to the update with
\* the empty list.
C6_DoubleFailureGivesDefault ==
    (io = [request |-> "raised", open |-> "raised"]) =>
        /\ exception = ""
        /\ pc # "crashed"
        /\ loaded = << >>
        /\ pc = "update" => versions = << >>

C6_Witness ==
    /\ io = [request |-> "raised", open |-> "raised"]
    /\ pc = "done"
    /\ Len(Written) = 1
    /\ Written[1].version = VERSION
    /\ remote # Some(<< >>)

\* the version of the highest-index entry of m that satisfies P, else of the
\* last entry, else None
LastMatch(m, P(_)) ==
    LET at == { i \in 1..Len(m) : P(m[i]) }
    IN  IF at # {} THEN Some(m[Max(at)].version)
        ELSE IF Len(m) > 0 THEN Some(m[Len(m)].version)
        ELSE None

EntryIsLatest(e) == e.latest
EntryIsDev(e) == IsDev(e.version)

\* C7: latest_version is the version of the highest-index entry with latest =
\* true, dev_version the version of the highest-index entry with "dev" in its
\* version; without a match each is the version of the last entry, and None
\* when the list is empty.
C7_Lookups ==
    LookedUp =>
        /\ latest_version = LastMatch(versions, EntryIsLatest)
        /\ dev_version = LastMatch(versions, EntryIsDev)

C7_Witness ==
    /\ LookedUp
    /\ Len(versions) = 3
    /\ LatestAt(versions) = { 1, 2 }
    /\ latest_version = Some(versions[2].version)
    /\ ~IsDev(versions[1].version) /\ IsDev(versions[2].version) /\ ~IsDev(versions[3].version)
    /\ dev_version = Some(versions[2].version)

\* the part of file after the prefix latest_version/
RelPath(file) == SubSeq(file, Len(latest_version[1]) + 2, Len(file))

\* C8: the stub of a file latest_version/rel is written at rel.
C8_OutfileIsRelPath ==
    \A r \in redirects : r.outfile = RelPath(r.file)

\* C9 as claimed: the stub of a file latest_version/rel redirects to URL/rel.
C9_RootRelativeUrl ==
    \A r \in redirects : r.url = UrlAt(URL, RelPath(r.file))

\* C9: the stub of a file latest_version/rel redirects to
\* URL/latest_version/rel, the page inside the version directory, and the
\* stub on disk at its output path holds the url of a file written there.
C9_VersionedUrl ==
    /\ \A r \in redirects :
         /\ r.file = latest_version[1] \o << "/" >> \o RelPath(r.file)
         /\ r.url = UrlAt(URL, latest_version[1] \o << "/" >> \o RelPath(r.file))
         /\ r.url # UrlAt(URL, RelPath(r.file))
    /\ \A r \in redirects :
         \E q \in redirects : q.outfile = r.outfile /\ stubs[r.outfile] = RedirectDoc(q.url)

C9_Witness ==
    /\ pc = "done"
    /\ \E r \in redirects :
         /\ RelPath(r.file) = << "a", "/", "b" >> \o s_html
         /\ r.outfile = RelPath(r.file)
         /\ stubs[r.outfile].refresh = UrlAt(URL, r.file)
    /\ Cardinality(redirects) = 3

NonDevAt(m) == { i \in 1..Len(m) : ~IsDev(m[i].version) }

s_latest_index == s_latest \o << "/" >> \o s_index_html

\* C10: in a chain of runs from the empty manifest, each loading what the run
\* before it wrote, once the manifest holds a version without "dev" the only
\* entry with latest = true is the last such version, latest_version is that
\* version and latest/index.html redirects to it; a run with a VERSION
\* already in the manifest leaves the latest flags as loaded.
C10_LatestIsLastNonDev ==
    /\ (chained /\ Updated /\ NonDevAt(versions) # {}) =>
          LET k == Max(NonDevAt(versions))
          IN  /\ LatestAt(Written) = { k }
              /\ LookedUp => latest_version = Some(versions[k].version)
              /\ pc \in { "dev", "sitemap", "done" } =>
                   stubs[s_latest_index] =
                       RedirectDoc(UrlAt(URL, versions[k].version \o << "/" >> \o s_index_html))
    /\ (chained /\ Updated /\ Present(loaded, VERSION)) =>
          { Written[i].version : i \in LatestAt(Written) } =
          { loaded[i].version : i \in LatestAt(loaded) }

C10_Witness ==
    /\ chained
    /\ pc = "done"
    /\ Len(versions) = 3
    /\ ~IsDev(versions[1].version)
    /\ ~IsDev(versions[2].version)
    /\ IsDev(versions[3].version)
    /\ VERSION = versions[1].version
    /\ latest_version = Some(versions[2].version)

====
